---- MODULE Spec2Model ----
(***************************************************************************)
(* Model of the middleware pipeline of httpclient (src/middleware/mod.rs): *)
(* the chain driver Next::run, the default Middleware::handle, and the     *)
(* Retry, Logger and Follow middlewares, run over a transport whose        *)
(* outcome for each start_request call is chosen nondeterministically.     *)
(*                                                                         *)
(* One call of Next::run over the whole stack is executed.  The nested     *)
(* async calls are kept as one frame per stack position: position d runs   *)
(* stack[d].handle, position Len(stack)+1 is Client::start_request.        *)
(***************************************************************************)
EXTENDS Integers, Sequences, FiniteSets, TLC

\* ---------------------------------------------------------------- bounds
\* Longest middleware stack built from every kind of middleware.
MaxStack == 2
\* Number of events the observation log keeps.
MaxLog == 6

\* ------------------------------------------------------ program constants
\* Retry::handle returns the error when i == 3.
RetryLimit == 3
\* Follow::handle: let mut allowed_redirects = 10.
AllowedRedirects == 10

\* ------------------------------------------------------------------- URIs
\* An http::Uri is its three optional parts.  A textual URI (a Location
\* header value, the text of Uri::to_string) is a sequence of tokens.
None == "<none>"
Schemes == {"http", "https"}
Authorities == {"a.example", "b.example", "www.google.com"}
Paths == {"/", "/start", "/next", "/test"}

MkUri(s, a, p) == [scheme |-> s, authority |-> a, pq |-> p]

\* The outcome of a fallible library call.
OkV(v) == [ok |-> TRUE, v |-> v]
ErrV == [ok |-> FALSE, v |-> None]

\* Uri::from_str: a text starting with "/" is a path-only URI; a text
\* starting with a scheme must continue with "://" and an authority, and an
\* empty path is the root; a text without scheme must be an authority alone.
UriFromStr(s) ==
    IF Len(s) = 0 THEN ErrV
    ELSE IF s[1] \in Paths
        THEN IF Len(s) = 1 THEN OkV(MkUri(None, None, s[1])) ELSE ErrV
    ELSE IF s[1] \in Schemes
        THEN IF Len(s) >= 3 /\ s[2] = "://" /\ s[3] \in Authorities
             THEN IF Len(s) = 3 THEN OkV(MkUri(s[1], s[3], "/"))
                  ELSE IF Len(s) = 4 /\ s[4] \in Paths
                       THEN OkV(MkUri(s[1], s[3], s[4]))
                       ELSE ErrV
             ELSE ErrV
    ELSE IF s[1] \in Authorities
        THEN IF Len(s) = 1 THEN OkV(MkUri(None, s[1], None)) ELSE ErrV
    ELSE ErrV

\* Uri::from_parts: a scheme needs an authority and a path; an authority
\* with a path needs a scheme.
UriFromParts(parts) ==
    IF parts.scheme # None
    THEN IF parts.authority = None \/ parts.pq = None THEN ErrV ELSE OkV(parts)
    ELSE IF parts.authority # None /\ parts.pq # None THEN ErrV ELSE OkV(parts)

\* Uri::to_string (Display for Uri).
UriToString(u) ==
    (IF u.scheme # None THEN <<u.scheme, "://">> ELSE <<>>)
    \o (IF u.authority # None THEN <<u.authority>> ELSE <<>>)
    \o (IF u.pq # None THEN <<u.pq>> ELSE <<>>)

\* fix_url with its two unwraps: ErrV stands for the panic of an unwrap.
fix_url(original, redirect_url) ==
    LET url == UriFromStr(redirect_url) IN
    IF ~url.ok THEN ErrV
    ELSE LET parts == url.v
             p1 == IF parts.authority = None
                   THEN [parts EXCEPT !.authority = original.authority]
                   ELSE parts
             p2 == IF p1.scheme = None
                   THEN [p1 EXCEPT !.scheme = original.scheme]
                   ELSE p1
         IN UriFromParts(p2)

\* ------------------------------------------------------ header values
\* A Location header: absent, a value that is not visible ASCII (to_str
\* fails), or a text.
NoHeader == <<"<absent>">>
Opaque == <<"<non-ascii>">>
LocationTexts ==
    { <<"/next">>,
      <<"http", "://", "b.example", "/next">>,
      <<"b.example">>,
      <<>> }
LocationValues == LocationTexts \cup {NoHeader, Opaque}

\* HeaderValue::to_str
HeaderToStr(v) == IF v = Opaque THEN ErrV ELSE OkV(v)

\* ------------------------------------------------------------- results
Statuses == {200, 301, 404, 500}

\* StatusCode::is_redirection
is_redirection(status) == status >= 300 /\ status <= 399
\* StatusCode::is_success
is_success(status) == status >= 200 /\ status <= 299

\* A Result<Response, Error> in one record shape.  kind is "Ok",
\* "Protocol" (Error::Protocol(e)) or "HttpError" (Error::HttpError(res));
\* "Panic" is the unwinding of the calling task and "None" no result yet.
\* id is the number of the start_request call the value stems from.
NoResult == [kind |-> "None", status |-> 0, loc |-> NoHeader, e |-> None, id |-> 0]
Panicked == [kind |-> "Panic", status |-> 0, loc |-> NoHeader, e |-> None, id |-> 0]
OkResponse(status, loc, id) ==
    [kind |-> "Ok", status |-> status, loc |-> loc, e |-> None, id |-> id]
ProtocolError(e, id) ==
    [kind |-> "Protocol", status |-> 0, loc |-> NoHeader, e |-> e, id |-> id]
HttpError(res) == [res EXCEPT !.kind = "HttpError"]

IsErr(r) == r.kind \in {"Protocol", "HttpError"}

\* ResponseExt::error_for_status: the promotion of a non-success Response
\* into Error::HttpError.
error_for_status(res) ==
    IF is_success(res.status) THEN [res EXCEPT !.kind = "Ok"] ELSE HttpError(res)


\* ------------------------------------------------------------- requests
\* --------------------------------------------------------- InMemoryBody
\* Bytes are numbers 0..255; a byte string, and the UTF-8 bytes of a
\* String, is a sequence of them.
\* serde_json::Value, as far as the bodies of the model need it: null, a
\* string (of characters that need no escape), a one-digit number, the
\* empty array and the empty object.
JsonNull == <<0>>
JsonString(s) == <<1>> \o s
JsonNumber(n) == <<2, n>>
JsonArray == <<3>>
JsonObject == <<4>>

\* serde_json::to_string / Value::to_string: the compact JSON text.
to_string(v) ==
    CASE v[1] = 0 -> <<110, 117, 108, 108>>
      [] v[1] = 1 -> <<34>> \o Tail(v) \o <<34>>
      [] v[1] = 2 -> <<48 + v[2]>>
      [] v[1] = 3 -> <<91, 93>>
      [] v[1] = 4 -> <<123, 125>>

\* enum InMemoryBody { Empty, Bytes(Vec<u8>), Text(String), Json(Value) }
EmptyBody == [variant |-> "Empty", content |-> <<>>]
BytesBody(b) == [variant |-> "Bytes", content |-> b]
TextBody(s) == [variant |-> "Text", content |-> s]
JsonBody(v) == [variant |-> "Json", content |-> v]

\* (mutation of is_empty: a Json body is empty when its value is)
is_emptyByValue(body) ==
    CASE body.variant = "Empty" -> TRUE
      [] body.variant = "Bytes" -> Len(body.content) = 0
      [] body.variant = "Text" -> Len(body.content) = 0
      [] body.variant = "Json" ->
            body.content \in {JsonNull, JsonString(<<>>), JsonArray, JsonObject}

\* InMemoryBody::is_empty
is_empty(body) ==
    CASE body.variant = "Empty" -> TRUE
      [] body.variant = "Bytes" -> Len(body.content) = 0
      [] body.variant = "Text" -> Len(body.content) = 0
      [] body.variant = "Json" -> FALSE

\* InMemoryBody::bytes, i.e. TryInto<Bytes>: serializing a Value of the
\* model cannot fail.
bytes(body) ==
    CASE body.variant = "Empty" -> <<>>
      [] body.variant = "Bytes" -> body.content
      [] body.variant = "Text" -> body.content
      [] body.variant = "Json" -> to_string(body.content)

\* A Hasher, as far as its input goes: the bytes written to it so far.
write_u8(state, b) == Append(state, b)
write(state, bs) == state \o bs

\* (mutation of HashTag: Text is written with the tag of Bytes)
HashTagOfBytes(variant) ==
    CASE variant = "Empty" -> 0
      [] variant = "Bytes" -> 1
      [] variant = "Text" -> 1
      [] variant = "Json" -> 3

\* The byte each arm of hash writes first.
HashTag(variant) ==
    CASE variant = "Empty" -> 0
      [] variant = "Bytes" -> 1
      [] variant = "Text" -> 2
      [] variant = "Json" -> 3

\* impl Hash for InMemoryBody
hash(b, state) ==
    CASE b.variant = "Empty" -> write_u8(state, HashTag("Empty"))
      [] b.variant = "Bytes" ->
            write(write_u8(state, HashTag("Bytes")), b.content)
      [] b.variant = "Text" ->
            write(write_u8(state, HashTag("Text")), b.content)
      [] b.variant = "Json" ->
            write(write_u8(state, HashTag("Json")), to_string(b.content))

\* -------------------------------------------------------------- Request
\* A Request: its URL, whether its body is already an in-memory body
\* (mem), the value of its one header, its method, version and body.
Request(url, mem, header, method, version, body) ==
    [url |-> url, mem |-> mem, header |-> header,
     method |-> method, version |-> version, body |-> body]
NoRequest ==
    Request(MkUri(None, None, None), FALSE, NoHeader, None, None, EmptyBody)

\* The method, version and body of the requests of the model.
Payloads ==
    { <<"GET", "HTTP/1.1", EmptyBody>>,
      <<"POST", "HTTP/2.0", TextBody(<<104, 105>>)>> }
RequestHeaderValues == {<<"text/plain">>, Opaque}

OrigUrls == { MkUri("https", "a.example", "/start") }

\* Request::into_memory: reading a body that is not yet in memory may fail;
\* the result holds an in-memory body.
into_memory(request) ==
    {[ok |-> TRUE, v |-> [request EXCEPT !.mem = TRUE]]}
    \cup (IF request.mem THEN {} ELSE {[ok |-> FALSE, v |-> request]})

\* InMemoryRequest::set_url
set_url(request, url) == [request EXCEPT !.url = url]

\* ---------------------------------------------------------------- stacks
Kinds == {"Default", "Retry", "Logger", "Follow"}

RECURSIVE SeqsUpTo(_, _)
SeqsUpTo(S, n) ==
    IF n = 0 THEN {<<>>}
    ELSE LET shorter == SeqsUpTo(S, n - 1)
         IN shorter \cup {Append(q, x) : q \in shorter, x \in S}

Range(q) == {q[j] : j \in 1..Len(q)}

\* The MiddlewareStack values the client is built with: every stack of at
\* most MaxStack middlewares that does not hold both loops (Retry and
\* Follow), and the three-deep stacks around each of them.
Stacks ==
    {q \in SeqsUpTo(Kinds, MaxStack) : ~({"Retry", "Follow"} \subseteq Range(q))}
    \cup { <<"Default", "Follow", "Default">>,
           <<"Default", "Retry", "Logger">> }

\* ------------------------------------------------------------ HeaderMap
\* http::HeaderMap as Part.headers uses it: one entry per header name, in
\* the order the names were first added, each with the values of the name.
\* added and names record, next to the map, every value it holds in the
\* order the values were added (a value that replaces the values of its
\* name takes the place of the first of them), and the names in the order
\* they first appeared.
NewHeaderMap == [entries |-> <<>>, added |-> <<>>, names |-> <<>>]

RECURSIVE Select(_, _)
Select(pairs, name) ==
    IF pairs = <<>> THEN <<>>
    ELSE IF Head(pairs)[1] = name
         THEN <<Head(pairs)>> \o Select(Tail(pairs), name)
         ELSE Select(Tail(pairs), name)

RECURSIVE Reject(_, _)
Reject(pairs, name) ==
    IF pairs = <<>> THEN <<>>
    ELSE IF Head(pairs)[1] = name
         THEN Reject(Tail(pairs), name)
         ELSE <<Head(pairs)>> \o Reject(Tail(pairs), name)

\* The first pair of the name takes the value, its other pairs go.
RECURSIVE Replace(_, _, _)
Replace(pairs, name, value) ==
    IF pairs = <<>> THEN <<>>
    ELSE IF Head(pairs)[1] = name
         THEN << <<name, value>> >> \o Reject(Tail(pairs), name)
         ELSE <<Head(pairs)>> \o Replace(Tail(pairs), name, value)

EntryOf(map, name) ==
    {j \in 1..Len(map.entries) : map.entries[j].key = name}

\* HeaderMap::insert: the value replaces the values of the name, whose
\* entry keeps its place.
HeaderInsert(map, name, value) ==
    [entries |->
        IF EntryOf(map, name) = {}
        THEN Append(map.entries, [key |-> name, values |-> <<value>>])
        ELSE [j \in 1..Len(map.entries) |->
                IF map.entries[j].key = name
                THEN [key |-> name, values |-> <<value>>]
                ELSE map.entries[j]],
     added |-> IF EntryOf(map, name) = {}
               THEN Append(map.added, <<name, value>>)
               ELSE Replace(map.added, name, value),
     names |-> IF EntryOf(map, name) = {} THEN Append(map.names, name)
               ELSE map.names]

\* HeaderMap::append: the value is added after the values of the name.
HeaderAppend(map, name, value) ==
    [entries |->
        IF EntryOf(map, name) = {}
        THEN Append(map.entries, [key |-> name, values |-> <<value>>])
        ELSE [j \in 1..Len(map.entries) |->
                IF map.entries[j].key = name
                THEN [key |-> name, values |-> Append(map.entries[j].values, value)]
                ELSE map.entries[j]],
     added |-> Append(map.added, <<name, value>>),
     names |-> IF EntryOf(map, name) = {} THEN Append(map.names, name)
               ELSE map.names]

RECURSIVE EntryPairs(_, _)
EntryPairs(key, values) ==
    IF values = <<>> THEN <<>>
    ELSE << <<key, Head(values)>> >> \o EntryPairs(key, Tail(values))

\* The iteration `for (key, value) in &part.headers`: entry by entry, and
\* within an entry value by value.
RECURSIVE HeaderMapIterFrom(_, _)
HeaderMapIterFrom(map, j) ==
    IF j > Len(map.entries) THEN <<>>
    ELSE EntryPairs(map.entries[j].key, map.entries[j].values)
            \o HeaderMapIterFrom(map, j + 1)

\* (mutation of HeaderMapIter: the values come in the order they were
\* added, whatever their name)
HeaderMapIterAsAdded(map) == map.added

HeaderMapIter(map) == HeaderMapIterFrom(map, 1)

\* ------------------------------------------------------------ multipart
\* The byte strings of multipart.rs.
Dashes == <<45, 45>>
CRLF == <<13, 10>>
ColonSpace == <<58, 32>>
BoundaryParam == <<59, 32, 98, 111, 117, 110, 100, 97, 114, 121, 61>>
MultipartFormData ==
    <<109, 117, 108, 116, 105, 112, 97, 114, 116, 47,
      102, 111, 114, 109, 45, 100, 97, 116, 97>>

\* struct Part { headers, body }, Part::new
Part(body) == [headers |-> NewHeaderMap, body |-> body]

\* Form::new, with the boundary gen_boundary returned.
Form(boundary) ==
    [boundary |-> boundary, content_type |-> MultipartFormData, parts |-> <<>>]

\* Form::full_content_type
full_content_type(form) == form.content_type \o BoundaryParam \o form.boundary

\* The inner loop of into: key, ": ", value, "\r\n" for each header.
RECURSIVE HeaderBytes(_)
HeaderBytes(pairs) ==
    IF pairs = <<>> THEN <<>>
    ELSE Head(pairs)[1] \o ColonSpace \o Head(pairs)[2] \o CRLF
            \o HeaderBytes(Tail(pairs))

\* The outer loop of into, from the bytes pushed so far.
RECURSIVE PartsBytes(_, _, _)
PartsBytes(pushed, boundary, parts) ==
    IF parts = <<>> THEN pushed
    ELSE PartsBytes(pushed \o Dashes \o boundary \o CRLF
                        \o HeaderBytes(HeaderMapIter(Head(parts).headers))
                        \o CRLF
                        \o bytes(Head(parts).body)
                        \o CRLF,
                    boundary, Tail(parts))

\* impl Into<Vec<u8>> for Form
FormInto(form) ==
    PartsBytes(<<>>, form.boundary, form.parts) \o Dashes \o form.boundary
        \o Dashes \o CRLF

\* ----------------------------------------------------------------- state
VARIABLES
    stack,      \* client.middlewares
    orig,       \* the request given to the outermost Next::run
    mode,       \* "call": a request goes down; "return": a result comes up
    pos,        \* position running next: 1..Len(stack) a middleware's
                \* handle, Len(stack)+1 the transport
    req,        \* the request passed to Next::run
    ret,        \* the result being returned
    fr,         \* the locals of the handle call suspended at each position
    handled,    \* per position, how many times handle was invoked
    tcalls,     \* how many times Client::start_request was invoked
    log,        \* the first MaxLog observations of entry, transport, exit
    form,       \* multipart: the Form being built
    part,       \* multipart: the Part being built, if any
    made,       \* multipart: what the Form, as it is now, has produced
    bodies,     \* body: two InMemoryBody values
    probe,      \* body: what is_empty and hash gave for them
    calls       \* concurrent calls: per call, the locals of its handle
                \* calls and what the call did

pipelineVars == <<stack, orig, mode, pos, req, ret, fr, handled, tcalls, log>>
multipartVars == <<form, part, made>>
bodyVars == <<bodies, probe>>
elsewhere == <<multipartVars, bodyVars, calls>>
vars == <<pipelineVars, multipartVars, bodyVars, calls>>

\* No byte string: the value of a result that was not produced.
NoBytes == <<-1>>

\* The state of the multipart and body values while none is in use.
MultipartIdle ==
    /\ form = Form(<<>>)
    /\ part = <<>>
    /\ made = [bytes |-> NoBytes, content_type |-> NoBytes, boundary |-> <<>>]

BodyIdle ==
    /\ bodies = <<EmptyBody, EmptyBody>>
    /\ probe = [empty |-> <<>>, hashes |-> <<>>]

CallsIdle == calls = <<>>

\* The class of a delegation result, as the middlewares tell them apart.
Class(r) ==
    IF r.kind = "Ok"
    THEN IF is_redirection(r.status) THEN "Redirect" ELSE "Response"
    ELSE r.kind

\* The locals of one handle call.  request, i, allowed_redirects and res
\* are the variables of the code; the rest records what the call did:
\* delegs counts its next.run calls, got lists the classes of their
\* results, mark is tcalls when its latest delegation began, sent / via /
\* before are the URL of its latest delegation, the Location text that URL
\* was resolved from, and the URL of the delegation before it; out is the
\* result the call returned.
NewFrame ==
    [request |-> NoRequest, i |-> 0, allowed_redirects |-> 0, res |-> NoResult,
     delegs |-> 0, got |-> <<>>, mark |-> 0,
     sent |-> MkUri(None, None, None), via |-> NoHeader,
     before |-> MkUri(None, None, None), out |-> NoResult]

Observe(e) == IF Len(log) < MaxLog THEN Append(log, e) ELSE log

Init ==
    /\ stack \in Stacks
    /\ orig \in {Request(u, m, h, p[1], p[2], p[3]) :
                    u \in OrigUrls, m \in BOOLEAN,
                    h \in RequestHeaderValues, p \in Payloads}
    /\ mode = "call"
    /\ pos = 1
    /\ req = orig
    /\ ret = NoResult
    /\ fr = [d \in 1..Len(stack) |-> NewFrame]
    /\ handled = [d \in 1..Len(stack) |-> 0]
    /\ tcalls = 0
    /\ log = <<>>
    /\ MultipartIdle
    /\ BodyIdle
    /\ CallsIdle

\* The state of the chain while no call is made.
PipelineIdle ==
    /\ stack = <<>>
    /\ orig = NoRequest
    /\ mode = "done"
    /\ pos = 0
    /\ req = NoRequest
    /\ ret = NoResult
    /\ fr = <<>>
    /\ handled = <<>>
    /\ tcalls = 0
    /\ log = <<>>

\* ------------------------------------------------------------ Next::run
\* (mutation of Rest: the continuation skips a middleware)
RestSkipsOne(d) == d + 2

\* split_first: the continuation handed to the middleware at position d
\* covers the positions after d.
Rest(d) == d + 1

\* Next::run dispatches to the first middleware of its slice, or to the
\* client when the slice is empty.
RunsMiddleware(kind) ==
    /\ mode = "call"
    /\ pos <= Len(stack)
    /\ stack[pos] = kind

\* (mutation of RunsClient: the client is also called when one middleware
\* is left in the slice)
RunsClientEarly ==
    /\ mode = "call"
    /\ pos >= Len(stack)

RunsClient ==
    /\ mode = "call"
    /\ pos = Len(stack) + 1

\* handle at position pos starts: its locals are fresh.
Enter(request) ==
    [fr EXCEPT ![pos] = [NewFrame EXCEPT !.request = request]]

\* The handle call at position d calls next.run(r); the run starts at
\* position to.
Delegate(frames, d, r, to) ==
    /\ fr' = [frames EXCEPT ![d].delegs = @ + 1,
                            ![d].mark = tcalls,
                            ![d].before = frames[d].sent,
                            ![d].sent = r.url]
    /\ mode' = "call"
    /\ pos' = to
    /\ req' = r
    /\ ret' = NoResult

\* The handle call at position d returns r to the next.run that invoked it.
ReturnFrom(frames, d, r) ==
    /\ fr' = [frames EXCEPT ![d].out = r]
    /\ ret' = r
    /\ pos' = d - 1
    /\ mode' = IF d = 1 THEN "done" ELSE "return"
    /\ req' = req

\* An unwrap or expect fails: the task running the call unwinds.
Panic ==
    /\ mode' = "done"
    /\ ret' = Panicked
    /\ pos' = 0
    /\ req' = req

\* handle is invoked at position pos.
Invoked ==
    /\ handled' = [handled EXCEPT ![pos] = @ + 1]
    /\ UNCHANGED <<elsewhere, stack, orig, tcalls>>

\* A result arrives at the handle call suspended at position pos.
Resumes(kind) ==
    /\ mode = "return"
    /\ pos >= 1
    /\ stack[pos] = kind

\* The result is bound in the handle call at position pos.
Receive == [fr EXCEPT ![pos].res = ret, ![pos].got = Append(@, Class(ret))]

\* ---------------------------------------------------- Client::start_request
\* The responses the transport can give as call number id.  Only a
\* redirection is given every Location value: on the other statuses the
\* code never reads the header, it only prints it.
Responses(id) ==
    {OkResponse(s, l, id) : s \in {t \in Statuses : is_redirection(t)},
                            l \in LocationValues}
    \cup {OkResponse(s, l, id) : s \in {t \in Statuses : ~is_redirection(t)},
                                 l \in {NoHeader, Opaque}}

\* The transport answers with a response, or fails with a transport error.
StartRequest ==
    /\ RunsClient
    /\ tcalls' = tcalls + 1
    /\ \E r \in Responses(tcalls + 1) \cup {ProtocolError("Transport", tcalls + 1)} :
          ret' = r
    /\ pos' = Len(stack)
    /\ mode' = IF Len(stack) = 0 THEN "done" ELSE "return"
    /\ log' = Observe(<<"transport", 0>>)
    /\ UNCHANGED <<elsewhere, stack, orig, req, fr, handled>>

\* --------------------------------------------------- Middleware::handle
\* The default handle: next.run(request).await
DefaultHandle ==
    /\ RunsMiddleware("Default")
    /\ Invoked
    /\ log' = Observe(<<"enter", pos>>)
    /\ Delegate(Enter(req), pos, req, Rest(pos))

DefaultReturn ==
    /\ Resumes("Default")
    /\ ReturnFrom(Receive, pos, ret)
    /\ log' = Observe(<<"exit", pos>>)
    /\ UNCHANGED <<elsewhere, stack, orig, handled, tcalls>>

\* ---------------------------------------------------------------- Retry
\* (mutation of RetryOkArm: only a success status counts as Ok)
RetryOkArmByStatus(res) == res.kind = "Ok" /\ is_success(res.status)

\* The arm Ok(response) => return Ok(response) of the match.
RetryOkArm(res) == res.kind = "Ok"

\* (mutations of RetryExhausted: one retry more, one retry less)
RetryExhaustedLate(i) == i = RetryLimit + 1
RetryExhaustedEarly(i) == i = RetryLimit - 1

\* if i == 3 { return Err(err); }
RetryExhausted(i) == i = RetryLimit

\* let request = request.into_memory().await?; then the first
\* next.run(request.clone().into())
RetryHandle ==
    /\ RunsMiddleware("Retry")
    /\ Invoked
    /\ log' = Observe(<<"enter", pos>>)
    /\ \E m \in into_memory(req) :
          /\ m.ok
          /\ Delegate(Enter(m.v), pos, m.v, Rest(pos))

\* into_memory fails: the ? returns its error before any delegation.
RetryBodyError ==
    /\ RunsMiddleware("Retry")
    /\ Invoked
    /\ \E m \in into_memory(req) : ~m.ok
    /\ log' = Append(Observe(<<"enter", pos>>), <<"exit", pos>>)
    /\ ReturnFrom(Enter(req), pos, ProtocolError("Body", 0))

RetryReturnOk ==
    /\ Resumes("Retry")
    /\ RetryOkArm(ret)
    /\ ReturnFrom(Receive, pos, ret)
    /\ log' = Observe(<<"exit", pos>>)
    /\ UNCHANGED <<elsewhere, stack, orig, handled, tcalls>>

\* The arm Err(err) with i < 3: i += 1 and the loop delegates again.
RetryAgain ==
    /\ Resumes("Retry")
    /\ ~RetryOkArm(ret)
    /\ ~RetryExhausted(fr[pos].i)
    /\ Delegate([Receive EXCEPT ![pos].i = @ + 1], pos, fr[pos].request, Rest(pos))
    /\ UNCHANGED <<elsewhere, stack, orig, handled, tcalls, log>>

\* The arm Err(err) with i == 3: return Err(err).
RetryGiveUp ==
    /\ Resumes("Retry")
    /\ ~RetryOkArm(ret)
    /\ RetryExhausted(fr[pos].i)
    /\ ReturnFrom(Receive, pos, ret)
    /\ log' = Observe(<<"exit", pos>>)
    /\ UNCHANGED <<elsewhere, stack, orig, handled, tcalls>>

\* --------------------------------------------------------------- Logger
\* headers_to_string: v.to_str().unwrap() on every header value.
headers_to_string(headers) ==
    IF \A v \in headers : HeaderToStr(v).ok THEN OkV(headers) ELSE ErrV

RequestHeaders(r) == {r.header}
ResponseHeaders(res) == IF res.loc = NoHeader THEN {} ELSE {res.loc}

\* (mutation of LoggerResult: an HTTP status error is returned as Ok)
LoggerResultSwallows(res) ==
    IF res.kind = "Protocol" THEN res
    ELSE IF res.kind = "HttpError" THEN [res EXCEPT !.kind = "Ok"]
    ELSE error_for_status(res)

\* The match on the result of next.run: a protocol error is returned as
\* it is, a response or an HTTP status error goes through error_for_status.
LoggerResult(res) ==
    IF res.kind = "Protocol" THEN res ELSE error_for_status(res)

\* The request is printed, then next.run(request).
LoggerHandle ==
    /\ RunsMiddleware("Logger")
    /\ Invoked
    /\ headers_to_string(RequestHeaders(req)).ok
    /\ log' = Observe(<<"enter", pos>>)
    /\ Delegate(Enter(req), pos, req, Rest(pos))

\* A request header value that is not text: the unwrap panics.
LoggerRequestPanic ==
    /\ RunsMiddleware("Logger")
    /\ Invoked
    /\ ~headers_to_string(RequestHeaders(req)).ok
    /\ log' = Observe(<<"enter", pos>>)
    /\ fr' = Enter(req)
    /\ Panic

LoggerReturn ==
    /\ Resumes("Logger")
    /\ ret.kind = "Protocol" \/ headers_to_string(ResponseHeaders(ret)).ok
    /\ ReturnFrom(Receive, pos, LoggerResult(ret))
    /\ log' = Observe(<<"exit", pos>>)
    /\ UNCHANGED <<elsewhere, stack, orig, handled, tcalls>>

\* A response header value that is not text: the unwrap panics.
LoggerResponsePanic ==
    /\ Resumes("Logger")
    /\ ret.kind # "Protocol"
    /\ ~headers_to_string(ResponseHeaders(ret)).ok
    /\ fr' = Receive
    /\ Panic
    /\ UNCHANGED <<elsewhere, stack, orig, handled, tcalls, log>>

\* --------------------------------------------------------------- Follow
\* (mutation of RedirectBase: the URL of the previous hop)
RedirectBasePrevious(f) == f.sent

\* The URL the redirect is resolved against: request.url() of the
\* materialized incoming request.
RedirectBase(f) == f.request.url

\* (mutation of FollowBudgetSpent: off by one)
FollowBudgetSpentEarly(allowed_redirects) == allowed_redirects <= 1

\* if allowed_redirects == 0
FollowBudgetSpent(allowed_redirects) == allowed_redirects = 0

\* (mutation of FollowSpend: a hop costs two)
FollowSpendTwo(allowed_redirects) == allowed_redirects - 2

\* allowed_redirects -= 1
FollowSpend(allowed_redirects) == allowed_redirects - 1

\* (mutation of HopEntry: the hop re-enters at the top of the stack)
HopEntryTop(d) == 1

\* res = next.run(request.into()): a hop runs the continuation that
\* Follow::handle was given.
HopEntry(d) == Rest(d)

\* (mutation of RedirectTarget: without a Location header the hop goes to
\* the URL of the original request again)
RedirectTargetLenient(f, res) ==
    IF res.loc = NoHeader THEN OkV(RedirectBase(f))
    ELSE IF ~HeaderToStr(res.loc).ok THEN ErrV
    ELSE fix_url(RedirectBase(f), HeaderToStr(res.loc).v)

\* res.headers().get(LOCATION).expect(..).to_str().unwrap(), then fix_url:
\* the URL of the next hop, or ErrV when one of the unwraps panics.
RedirectTarget(f, res) ==
    IF res.loc = NoHeader THEN ErrV
    ELSE IF ~HeaderToStr(res.loc).ok THEN ErrV
    ELSE fix_url(RedirectBase(f), HeaderToStr(res.loc).v)

\* The result of a delegation is bound to res; allowed_redirects is
\* declared after the first one.
FollowReceive ==
    [Receive EXCEPT ![pos].allowed_redirects =
        IF fr[pos].delegs = 1 THEN AllowedRedirects ELSE @]

\* let request = request.into_memory().await?; then the first
\* next.run(request.clone().into())
FollowHandle ==
    /\ RunsMiddleware("Follow")
    /\ Invoked
    /\ log' = Observe(<<"enter", pos>>)
    /\ \E m \in into_memory(req) :
          /\ m.ok
          /\ Delegate(Enter(m.v), pos, m.v, Rest(pos))

FollowBodyError ==
    /\ RunsMiddleware("Follow")
    /\ Invoked
    /\ \E m \in into_memory(req) : ~m.ok
    /\ log' = Append(Observe(<<"enter", pos>>), <<"exit", pos>>)
    /\ ReturnFrom(Enter(req), pos, ProtocolError("Body", 0))

\* (mutation of FollowTry: the error is replaced by one of Follow's own)
FollowTryReplaces(err) == ProtocolError("TooManyRedirects", err.id)

\* The ? applied to the result of next.run(..).await: the value returned
\* for Err(err).
FollowTry(err) == err

\* next.run(..).await? : an error of a delegation is returned.
FollowError ==
    /\ Resumes("Follow")
    /\ ret.kind # "Ok"
    /\ ReturnFrom(FollowReceive, pos, FollowTry(ret))
    /\ log' = Observe(<<"exit", pos>>)
    /\ UNCHANGED <<elsewhere, stack, orig, handled, tcalls>>

\* The while condition is false: Ok(res).
FollowDone ==
    /\ Resumes("Follow")
    /\ ret.kind = "Ok"
    /\ ~is_redirection(ret.status)
    /\ ReturnFrom(FollowReceive, pos, ret)
    /\ log' = Observe(<<"exit", pos>>)
    /\ UNCHANGED <<elsewhere, stack, orig, handled, tcalls>>

\* if allowed_redirects == 0 { return Err(TooManyRedirects) }
FollowTooMany ==
    /\ Resumes("Follow")
    /\ ret.kind = "Ok"
    /\ is_redirection(ret.status)
    /\ FollowBudgetSpent(FollowReceive[pos].allowed_redirects)
    /\ ReturnFrom(FollowReceive, pos, ProtocolError("TooManyRedirects", ret.id))
    /\ log' = Observe(<<"exit", pos>>)
    /\ UNCHANGED <<elsewhere, stack, orig, handled, tcalls>>

\* The Location header is absent, is not text, or does not resolve.
FollowPanic ==
    /\ Resumes("Follow")
    /\ ret.kind = "Ok"
    /\ is_redirection(ret.status)
    /\ ~FollowBudgetSpent(FollowReceive[pos].allowed_redirects)
    /\ ~RedirectTarget(fr[pos], ret).ok
    /\ fr' = FollowReceive
    /\ Panic
    /\ UNCHANGED <<elsewhere, stack, orig, handled, tcalls, log>>

\* (mutation of HopRequest: the hop is made with GET and without a body)
HopRequestAsGet(f, url) ==
    [set_url(f.request, url) EXCEPT !.method = "GET", !.body = EmptyBody]

\* let request = request.clone(); let request = request.set_url(url);
HopRequest(f, url) == set_url(f.request, url)

\* One hop: the original request with the resolved URL is delegated.
FollowHop ==
    /\ Resumes("Follow")
    /\ ret.kind = "Ok"
    /\ is_redirection(ret.status)
    /\ ~FollowBudgetSpent(FollowReceive[pos].allowed_redirects)
    /\ RedirectTarget(fr[pos], ret).ok
    /\ Delegate([FollowReceive EXCEPT ![pos].allowed_redirects = FollowSpend(@),
                                      ![pos].via = ret.loc],
                pos, HopRequest(fr[pos], RedirectTarget(fr[pos], ret).v),
                HopEntry(pos))
    /\ UNCHANGED <<elsewhere, stack, orig, handled, tcalls, log>>

\* ------------------------------------------------------- specification
Next ==
    \/ StartRequest
    \/ DefaultHandle
    \/ DefaultReturn
    \/ RetryHandle
    \/ RetryBodyError
    \/ RetryReturnOk
    \/ RetryAgain
    \/ RetryGiveUp
    \/ LoggerHandle
    \/ LoggerRequestPanic
    \/ LoggerReturn
    \/ LoggerResponsePanic
    \/ FollowHandle
    \/ FollowBodyError
    \/ FollowError
    \/ FollowDone
    \/ FollowTooMany
    \/ FollowPanic
    \/ FollowHop

Spec == Init /\ [][Next]_vars

\* ------------------------------------------------------------ type check
TypeOK ==
    /\ stack \in Stacks
    /\ mode \in {"call", "return", "done"}
    /\ pos \in 0..(Len(stack) + 1)
    /\ tcalls \in Nat
    /\ Len(log) <= MaxLog + 1

\* ------------------------------------------------- multipart, as a program
\* A caller builds a Form: Form::new, then in any order the setters, new
\* parts and their headers, full_content_type, and at the end into().
MaxParts == 2
MaxHeaders == 3

Boundaries == { <<66>>, <<120, 45>> }
ContentTypes ==
    { MultipartFormData,
      <<109, 117, 108, 116, 105, 112, 97, 114, 116, 47, 109, 105, 120, 101, 100>> }
HeaderNames == { <<97>>, <<98>> }
PartBodies == { TextBody(<<104, 105>>), JsonBody(JsonObject) }

RECURSIVE HeaderCount(_)
HeaderCount(parts) ==
    IF parts = <<>> THEN 0
    ELSE Len(Head(parts).headers.added) + HeaderCount(Tail(parts))

\* The header value given next: the digit counting the values the parts
\* hold, so that the values of a form tell their order.
HeaderValue == <<49 + HeaderCount(form.parts \o part)>>

FormInit ==
    /\ form \in {Form(b) : b \in Boundaries}
    /\ part = <<>>
    /\ made = [bytes |-> NoBytes, content_type |-> NoBytes,
               boundary |-> form.boundary]
    /\ PipelineIdle
    /\ BodyIdle
    /\ CallsIdle

\* The Form is consumed by into().
FormLives == made.bytes = NoBytes

\* Part::new(body)
PartNew ==
    /\ FormLives
    /\ part = <<>>
    /\ Len(form.parts) < MaxParts
    /\ \E b \in PartBodies : part' = <<Part(b)>>
    /\ UNCHANGED <<form, made, pipelineVars, bodyVars, calls>>

\* part.headers.insert(name, value)
PartHeadersInsert ==
    /\ FormLives
    /\ part # <<>>
    /\ HeaderCount(form.parts \o part) < MaxHeaders
    /\ \E name \in HeaderNames :
          part' = <<[part[1] EXCEPT !.headers = HeaderInsert(@, name, HeaderValue)]>>
    /\ UNCHANGED <<form, made, pipelineVars, bodyVars, calls>>

\* part.headers.append(name, value)
PartHeadersAppend ==
    /\ FormLives
    /\ part # <<>>
    /\ HeaderCount(form.parts \o part) < MaxHeaders
    /\ \E name \in HeaderNames :
          part' = <<[part[1] EXCEPT !.headers = HeaderAppend(@, name, HeaderValue)]>>
    /\ UNCHANGED <<form, made, pipelineVars, bodyVars, calls>>

\* Form::part / form.parts.push(part)
FormPart ==
    /\ FormLives
    /\ part # <<>>
    /\ form' = [form EXCEPT !.parts = Append(@, part[1])]
    /\ part' = <<>>
    /\ UNCHANGED <<made, pipelineVars, bodyVars, calls>>

\* Form::boundary
SetBoundary(f, boundary) == [f EXCEPT !.boundary = boundary]

FormBoundary ==
    /\ FormLives
    /\ \E b \in Boundaries :
          /\ form' = SetBoundary(form, b)
          /\ made' = [made EXCEPT !.boundary = b, !.content_type = NoBytes]
    /\ UNCHANGED <<part, pipelineVars, bodyVars, calls>>

\* Form::content_type
FormContentType ==
    /\ FormLives
    /\ \E c \in ContentTypes : form' = [form EXCEPT !.content_type = c]
    /\ made' = [made EXCEPT !.content_type = NoBytes]
    /\ UNCHANGED <<part, pipelineVars, bodyVars, calls>>

\* Form::full_content_type
FormFullContentType ==
    /\ FormLives
    /\ made' = [made EXCEPT !.content_type = full_content_type(form)]
    /\ UNCHANGED <<form, part, pipelineVars, bodyVars, calls>>

\* let bytes: Vec<u8> = form.into();
FormIntoBytes ==
    /\ FormLives
    /\ part = <<>>
    /\ made' = [made EXCEPT !.bytes = FormInto(form)]
    /\ UNCHANGED <<form, part, pipelineVars, bodyVars, calls>>

FormNext ==
    \/ PartNew
    \/ PartHeadersInsert
    \/ PartHeadersAppend
    \/ FormPart
    \/ FormBoundary
    \/ FormContentType
    \/ FormFullContentType
    \/ FormIntoBytes

FormSpec == FormInit /\ [][FormNext]_vars

\* ------------------------------------------------------ body, as a program
\* A caller holds two bodies, asks the first whether it is empty and
\* hashes both, each with a fresh hasher.
MaxLen == 2

ByteValues == {0, 1, 49}
ByteStrings == SeqsUpTo(ByteValues, MaxLen)
JsonValues ==
    { JsonNull, JsonString(<<>>), JsonString(<<49>>), JsonNumber(1),
      JsonArray, JsonObject }
Bodies ==
    {EmptyBody}
    \cup {BytesBody(b) : b \in ByteStrings}
    \cup {TextBody(t) : t \in ByteStrings}
    \cup {JsonBody(v) : v \in JsonValues}

BodyInit ==
    /\ bodies \in Bodies \X Bodies
    /\ probe = [empty |-> <<>>, hashes |-> <<>>]
    /\ PipelineIdle
    /\ MultipartIdle
    /\ CallsIdle

BodyIsEmpty ==
    /\ probe.empty = <<>>
    /\ probe' = [probe EXCEPT !.empty = <<is_empty(bodies[1])>>]
    /\ UNCHANGED <<bodies, pipelineVars, multipartVars, calls>>

BodyHash ==
    /\ probe.hashes = <<>>
    /\ probe' = [probe EXCEPT
                    !.hashes = <<hash(bodies[1], <<>>), hash(bodies[2], <<>>)>>]
    /\ UNCHANGED <<bodies, pipelineVars, multipartVars, calls>>

BodyNext ==
    \/ BodyIsEmpty
    \/ BodyHash

BodySpec == BodyInit /\ [][BodyNext]_vars

\* ------------------------------------------------------ concurrent calls
\* Two calls made through one client whose stack is [Retry, Follow].  Each
\* call is a task of its own; between two awaits of the transport a task
\* runs alone, so the calls interleave step by step.
Calls == {1, 2}

\* The transport's answers to the concurrent calls.
ConcurrentResponses ==
    { OkResponse(200, NoHeader, 0),
      OkResponse(301, <<"/next">>, 0),
      ProtocolError("Transport", 0) }

\* One call: pc is where it stands; i, allowed_redirects and res are the
\* locals of its Retry.handle and Follow.handle calls; attempts counts the
\* delegations of its Retry.handle call, fails the errors that call
\* received, hops the hops of its current Follow.handle call; out is the
\* result of the call.
NewCall ==
    [pc |-> "new", i |-> 0, allowed_redirects |-> 0, res |-> NoResult,
     attempts |-> 0, fails |-> 0, hops |-> 0, out |-> NoResult]

\* (mutation of RetryFrame: the counter i is one cell shared by the calls)
RetryFrameShared(k) == 1

\* The variables of a handle call are locals of the future that the call
\* of k runs: Retry and Follow are unit structs and hold no state.
RetryFrame(k) == k
FollowFrame(k) == k

ConcurrentInit ==
    /\ calls = [k \in Calls |-> NewCall]
    /\ PipelineIdle
    /\ MultipartIdle
    /\ BodyIdle

Outside == <<pipelineVars, multipartVars, bodyVars>>

\* Retry::handle is invoked: let mut i = 0, then the first next.run.
CallRetryHandle(k) ==
    /\ calls[k].pc = "new"
    /\ calls' = [calls EXCEPT ![k].pc = "follow",
                              ![k].attempts = 1,
                              ![RetryFrame(k)].i = 0]
    /\ UNCHANGED Outside

\* Follow::handle is invoked: its first next.run reaches the transport.
CallFollowHandle(k) ==
    /\ calls[k].pc = "follow"
    /\ calls' = [calls EXCEPT ![k].pc = "transport",
                              ![k].hops = 0,
                              ![FollowFrame(k)].allowed_redirects = AllowedRedirects]
    /\ UNCHANGED Outside

\* Client::start_request answers the call.
CallStartRequest(k) ==
    /\ calls[k].pc = "transport"
    /\ \E r \in ConcurrentResponses :
          calls' = [calls EXCEPT ![k].pc = "answer", ![k].res = r]
    /\ UNCHANGED Outside

\* next.run(..).await? in Follow::handle
CallFollowError(k) ==
    /\ calls[k].pc = "answer"
    /\ calls[k].res.kind # "Ok"
    /\ calls' = [calls EXCEPT ![k].pc = "retry",
                              ![k].res = FollowTry(calls[k].res)]
    /\ UNCHANGED Outside

\* The while condition of Follow::handle is false: Ok(res).
CallFollowDone(k) ==
    /\ calls[k].pc = "answer"
    /\ calls[k].res.kind = "Ok"
    /\ ~is_redirection(calls[k].res.status)
    /\ calls' = [calls EXCEPT ![k].pc = "retry"]
    /\ UNCHANGED Outside

\* if allowed_redirects == 0 { return Err(TooManyRedirects) }
CallFollowTooMany(k) ==
    /\ calls[k].pc = "answer"
    /\ calls[k].res.kind = "Ok"
    /\ is_redirection(calls[k].res.status)
    /\ FollowBudgetSpent(calls[FollowFrame(k)].allowed_redirects)
    /\ calls' = [calls EXCEPT ![k].pc = "retry",
                              ![k].res = ProtocolError("TooManyRedirects", 0)]
    /\ UNCHANGED Outside

\* One hop of Follow::handle: allowed_redirects -= 1, then next.run.
CallFollowHop(k) ==
    /\ calls[k].pc = "answer"
    /\ calls[k].res.kind = "Ok"
    /\ is_redirection(calls[k].res.status)
    /\ ~FollowBudgetSpent(calls[FollowFrame(k)].allowed_redirects)
    /\ calls' = [calls EXCEPT ![k].pc = "transport",
                              ![k].hops = @ + 1,
                              ![FollowFrame(k)].allowed_redirects = FollowSpend(@)]
    /\ UNCHANGED Outside

\* The arm Ok(response) of Retry::handle.
CallRetryReturnOk(k) ==
    /\ calls[k].pc = "retry"
    /\ RetryOkArm(calls[k].res)
    /\ calls' = [calls EXCEPT ![k].pc = "done", ![k].out = calls[k].res]
    /\ UNCHANGED Outside

\* The arm Err(err) with i < 3: i += 1 and the loop delegates again.
CallRetryAgain(k) ==
    /\ calls[k].pc = "retry"
    /\ ~RetryOkArm(calls[k].res)
    /\ ~RetryExhausted(calls[RetryFrame(k)].i)
    /\ calls' = [calls EXCEPT ![k].pc = "follow",
                              ![k].fails = @ + 1,
                              ![k].attempts = @ + 1,
                              ![RetryFrame(k)].i = @ + 1]
    /\ UNCHANGED Outside

\* The arm Err(err) with i == 3: return Err(err).
CallRetryGiveUp(k) ==
    /\ calls[k].pc = "retry"
    /\ ~RetryOkArm(calls[k].res)
    /\ RetryExhausted(calls[RetryFrame(k)].i)
    /\ calls' = [calls EXCEPT ![k].pc = "done",
                              ![k].fails = @ + 1,
                              ![k].out = calls[k].res]
    /\ UNCHANGED Outside

ConcurrentNext ==
    \/ \E k \in Calls : CallRetryHandle(k)
    \/ \E k \in Calls : CallFollowHandle(k)
    \/ \E k \in Calls : CallStartRequest(k)
    \/ \E k \in Calls : CallFollowError(k)
    \/ \E k \in Calls : CallFollowDone(k)
    \/ \E k \in Calls : CallFollowTooMany(k)
    \/ \E k \in Calls : CallFollowHop(k)
    \/ \E k \in Calls : CallRetryReturnOk(k)
    \/ \E k \in Calls : CallRetryAgain(k)
    \/ \E k \in Calls : CallRetryGiveUp(k)

ConcurrentSpec == ConcurrentInit /\ [][ConcurrentNext]_vars

\* ------------------------------------------------------------ vocabulary
Positions(kind) == {d \in 1..Len(stack) : stack[d] = kind}
ErrorClasses == {"Protocol", "HttpError"}
ResponseClasses == {"Response", "Redirect"}
MaxAttempts == RetryLimit + 1
MaxResponses == AllowedRedirects + 1

\* ---------------------------------------------------------------- Retry
\* C1: a Retry.handle call never delegates more than 4 times; a call that
\* delegated and returns an error has delegated exactly 4 times, every one
\* of the 4 delegations failed, and the error returned is the result of the
\* 4th delegation: it stems from a transport call made during that
\* delegation, not from an earlier attempt.
RetryGivesUpAfterFour ==
    \A d \in Positions("Retry") :
        /\ fr[d].delegs <= MaxAttempts
        /\ (IsErr(fr[d].out) /\ fr[d].delegs >= 1) =>
              /\ fr[d].delegs = MaxAttempts
              /\ fr[d].got \in [1..MaxAttempts -> ErrorClasses]
              /\ fr[d].out = fr[d].res
              /\ fr[d].out.id > fr[d].mark

RetryGivesUpAfterFourWitness ==
    \E d \in Positions("Retry") :
        /\ fr[d].got = <<"Protocol", "Protocol", "Protocol", "Protocol">>
        /\ fr[d].out = ProtocolError("Transport", tcalls)
        /\ fr[d].delegs = 4
        /\ tcalls = 4

\* C2: the delegations of a Retry.handle call fail up to the first one that
\* returns a Response; that Response, the k-th result with k in 1..4, is
\* what Retry returns after exactly k delegations, and Retry does not give
\* up with an error before the 4th delegation has failed.
RetryReturnsFirstResponse ==
    \A d \in Positions("Retry") :
        /\ \A j \in 1..Len(fr[d].got) :
              fr[d].got[j] \in ResponseClasses =>
                  /\ j = Len(fr[d].got)
                  /\ j <= MaxAttempts
                  /\ fr[d].delegs = j
                  /\ fr[d].out = fr[d].res
                  /\ fr[d].out.kind = "Ok"
        /\ (IsErr(fr[d].out) /\ fr[d].delegs >= 1) => Len(fr[d].got) = MaxAttempts

RetryReturnsFirstResponseWitness ==
    \E d \in Positions("Retry") :
        /\ fr[d].got = <<"Protocol", "Protocol", "Protocol", "Response">>
        /\ fr[d].out.kind = "Ok"
        /\ fr[d].out.id = 4
        /\ fr[d].delegs = 4

\* C3: a Response with an error status (404, 500) that a delegation of
\* Retry returns is returned by Retry as it is, and is the last result that
\* call receives.
RetryReturnsErrorStatus ==
    \A d \in Positions("Retry") :
        (fr[d].res.kind = "Ok" /\ fr[d].res.status >= 400) =>
            /\ fr[d].out = fr[d].res
            /\ fr[d].delegs = Len(fr[d].got)
            /\ ~(mode = "call" /\ pos > d)

RetryReturnsErrorStatusWitness ==
    \E d \in Positions("Retry") :
        /\ fr[d].res.kind = "Ok"
        /\ fr[d].res.status = 500
        /\ fr[d].out = fr[d].res
        /\ fr[d].delegs = 1

\* C4: Retry delegates again only after a transport or protocol error: an
\* HTTP status error that a delegation of Retry yields (a Response promoted
\* by a Logger below Retry) is returned by Retry and is the last result the
\* call receives.  Stated for the status errors of the client and server
\* error classes, which every reading of the promotion step promotes.
RetryOnlyOnProtocolError ==
    \A d \in Positions("Retry") :
        (fr[d].res.kind = "HttpError" /\ fr[d].res.status >= 400) =>
            /\ fr[d].out = fr[d].res
            /\ fr[d].delegs = Len(fr[d].got)

\* --------------------------------------------------------------- Follow
\* C5: a Follow.handle call never delegates more than 11 times; when the
\* 11 responses of the initial delegation and of 10 hops are all
\* redirections the call returns TooManyRedirects after exactly 11
\* delegations, and it raises that error in no other case.
FollowStopsAtEleventhRedirect ==
    \A d \in Positions("Follow") :
        /\ fr[d].delegs <= MaxResponses
        /\ fr[d].got = [j \in 1..MaxResponses |-> "Redirect"] =>
              /\ fr[d].out = ProtocolError("TooManyRedirects", fr[d].res.id)
              /\ fr[d].delegs = MaxResponses
        /\ (fr[d].out.e = "TooManyRedirects" /\ fr[d].res.kind = "Ok") =>
              fr[d].got = [j \in 1..MaxResponses |-> "Redirect"]

FollowStopsAtEleventhRedirectWitness ==
    \E d \in Positions("Follow") :
        /\ Len(fr[d].got) = 11
        /\ fr[d].delegs = 11
        /\ fr[d].allowed_redirects = 0
        /\ fr[d].out.kind = "Protocol"
        /\ fr[d].out.e = "TooManyRedirects"
        /\ tcalls = 11

\* C6: when the first k results of a Follow.handle call are redirections
\* that were followed and result k+1 is a Response outside the redirection
\* class, k is at most 10 and Follow returns that Response after exactly
\* k+1 delegations; TooManyRedirects needs more than 10 redirections.
FollowReturnsFirstNonRedirect ==
    \A d \in Positions("Follow") :
        /\ \A j \in 1..Len(fr[d].got) :
              fr[d].got[j] = "Response" =>
                  /\ j = Len(fr[d].got)
                  /\ j <= MaxResponses
                  /\ \A h \in 1..(j - 1) : fr[d].got[h] = "Redirect"
                  /\ fr[d].delegs = j
                  /\ fr[d].allowed_redirects = AllowedRedirects - (j - 1)
                  /\ fr[d].out = fr[d].res
                  /\ fr[d].out.kind = "Ok"
        /\ (fr[d].out.e = "TooManyRedirects" /\ fr[d].res.kind = "Ok") =>
              Len(fr[d].got) > AllowedRedirects

FollowReturnsFirstNonRedirectWitness ==
    \E d \in Positions("Follow") :
        /\ Len(fr[d].got) = 11
        /\ \A h \in 1..10 : fr[d].got[h] = "Redirect"
        /\ fr[d].got[11] = "Response"
        /\ fr[d].out.kind = "Ok"
        /\ fr[d].out.status = 200
        /\ fr[d].delegs = 11

\* What the claim C7 says the target of a hop is, given the URL of the
\* request Follow received and the parts of the Location value.
SubstitutedTarget(original, location) ==
    MkUri(IF location.scheme = None THEN original.scheme ELSE location.scheme,
          IF location.authority = None THEN original.authority
                                       ELSE location.authority,
          location.pq)

\* C7: the URL of every hop of Follow is the Location value with the scheme
\* and the authority it lacks taken from the URL of the request Follow
\* received, whatever the URL of the previous hop was; its path and query
\* are those of the Location value; https://a.example/start with Location
\* /next gives https://a.example/next (and fix_url of
\* https://www.google.com/ and /test gives https://www.google.com/test).
FollowResolvesAgainstOriginal ==
    /\ \A d \in Positions("Follow") :
          fr[d].via # NoHeader =>
              /\ UriFromStr(fr[d].via).ok
              /\ fr[d].sent = SubstitutedTarget(fr[d].request.url,
                                                UriFromStr(fr[d].via).v)
              /\ (fr[d].via = <<"/next">>
                    /\ UriToString(fr[d].request.url)
                         = <<"https", "://", "a.example", "/start">>) =>
                    UriToString(fr[d].sent)
                         = <<"https", "://", "a.example", "/next">>
              /\ (mode = "call" /\ pos = d + 1) => req.url = fr[d].sent
    /\ fix_url(MkUri("https", "www.google.com", "/"), <<"/test">>).ok
    /\ UriToString(fix_url(MkUri("https", "www.google.com", "/"), <<"/test">>).v)
          = <<"https", "://", "www.google.com", "/test">>

FollowResolvesAgainstOriginalWitness ==
    \E d \in Positions("Follow") :
        /\ fr[d].request.url = MkUri("https", "a.example", "/start")
        /\ fr[d].before = MkUri("http", "b.example", "/next")
        /\ fr[d].via = <<"/next">>
        /\ fr[d].sent = MkUri("https", "a.example", "/next")
        /\ mode = "call"
        /\ req.url = fr[d].sent

\* C8: in a stack whose other middlewares all forward by default, a
\* Follow.handle call re-enters the chain below itself: every middleware
\* before Follow is invoked once and never again, and when the call is over
\* every middleware after Follow and the transport have been invoked once
\* per delegation of Follow, that is k + 1 times for k hops.
FollowReentersBelowItself ==
    \A d \in Positions("Follow") :
        (\A e \in 1..Len(stack) : e # d => stack[e] = "Default") =>
            /\ \A e \in 1..d : handled[e] <= 1
            /\ handled[d] = 1 => \A e \in 1..d : handled[e] = 1
            /\ \A e \in (d + 1)..Len(stack) :
                  handled[e] \in {fr[d].delegs - 1, fr[d].delegs}
            /\ (mode = "done" /\ fr[d].delegs >= 1) =>
                  /\ fr[d].delegs = (AllowedRedirects - fr[d].allowed_redirects) + 1
                  /\ \A e \in (d + 1)..Len(stack) : handled[e] = fr[d].delegs
                  /\ tcalls = fr[d].delegs

FollowReentersBelowItselfWitness ==
    /\ stack = <<"Default", "Follow", "Default">>
    /\ mode = "done"
    /\ ret.kind = "Ok"
    /\ fr[2].allowed_redirects = AllowedRedirects - 2
    /\ handled = <<1, 1, 3>>
    /\ tcalls = 3

\* ------------------------------------------------------------ Next::run
OnionLog ==
    << <<"enter", 1>>, <<"enter", 2>>, <<"transport", 0>>,
       <<"exit", 2>>, <<"exit", 1>> >>

\* C9: for a stack [A, B], a call that reaches the transport once and
\* returns is observed as A entry, B entry, transport call, B exit, A exit;
\* in every run B is entered only after A, and A exits only after B once B
\* was entered.
OnionOrdering ==
    Len(stack) = 2 =>
        /\ (mode = "done" /\ tcalls = 1 /\ ret.kind # "Panic") => log = OnionLog
        /\ \A j \in 1..Len(log) :
              /\ log[j] = <<"enter", 2>> =>
                    \E h \in 1..(j - 1) : log[h] = <<"enter", 1>>
              /\ (log[j] = <<"exit", 1>>
                    /\ \E h \in 1..Len(log) : log[h] = <<"enter", 2>>) =>
                    \E h \in 1..(j - 1) : log[h] = <<"exit", 2>>

OnionOrderingWitness ==
    /\ stack = <<"Default", "Default">>
    /\ mode = "done"
    /\ ret.kind = "Ok"
    /\ ret.status = 200
    /\ log = OnionLog

\* --------------------------------------------------------------- Logger
\* What the claim C10 says Logger returns for the result of its delegation.
ThreeWayBranch(res) ==
    IF res.kind = "Protocol" THEN res
    ELSE IF res.kind = "HttpError" THEN res
    ELSE IF is_success(res.status) THEN res
    ELSE HttpError(res)

\* C10: whatever result the single delegation of a Logger.handle call
\* yields, Logger returns it by the three-way branch: a protocol error as
\* the same error, a Response as Ok when its status is a success and as an
\* HTTP status error wrapping it otherwise, an HTTP status error as an HTTP
\* status error wrapping the same Response; Logger delegates exactly once.
LoggerThreeWayBranch ==
    \A d \in Positions("Logger") :
        /\ fr[d].delegs <= 1
        /\ fr[d].res.kind # "None" =>
              /\ fr[d].delegs = 1
              /\ fr[d].out = ThreeWayBranch(fr[d].res)

\* The request a Logger.handle call at position d passes to next.run is
\* the request it was invoked with.
LoggerForwardsRequest(d) ==
    (mode = "call" /\ pos = d + 1) => req = fr[d].request

LoggingFailureDoesNotAbort ==
    (Positions("Follow") = {} /\ mode = "done") =>
        /\ ret.kind # "Panic"
        /\ \A d \in Positions("Logger") :
              handled[d] >= 1 => (fr[d].delegs >= 1 /\ fr[d].out.kind # "None")

\* --------------------------------------------------------------- Follow
\* C13: when a Follow.handle call receives a redirection response without
\* a Location header while its hop budget is not exhausted, the calling
\* task panics: the call ends without a result (no error value, no
\* Response), the Follow.handle call returns nothing and it makes no
\* further delegation.
FollowPanicsWithoutLocation ==
    \A d \in Positions("Follow") :
        (/\ fr[d].res.kind = "Ok"
         /\ is_redirection(fr[d].res.status)
         /\ fr[d].res.loc = NoHeader
         /\ fr[d].allowed_redirects > 0) =>
            /\ mode = "done"
            /\ ret = Panicked
            /\ fr[d].out = NoResult
            /\ fr[d].delegs = Len(fr[d].got)

FollowPanicsWithoutLocationWitness ==
    \E d \in Positions("Follow") :
        /\ fr[d].got = <<"Redirect", "Redirect">>
        /\ fr[d].res.loc = NoHeader
        /\ fr[d].allowed_redirects = AllowedRedirects - 1
        /\ fr[d].delegs = 2
        /\ tcalls = 2
        /\ ret = Panicked

\* ---------------------------------------------------- error propagation
\* C14: when a delegation made by Follow (the first one or a hop) or by a
\* default-forwarding middleware yields an error, that middleware returns
\* the same error and delegates no more; so in a stack without Retry a
\* transport error on the j-th transport call ends the whole call with
\* that error after exactly j transport calls.
ErrorsPropagateUnchanged ==
    /\ \A d \in Positions("Follow") \cup Positions("Default") :
          IsErr(fr[d].res) =>
              /\ fr[d].out = fr[d].res
              /\ fr[d].delegs = Len(fr[d].got)
    /\ Positions("Retry") = {} =>
          /\ (ret.kind = "Protocol" /\ ret.e = "Transport") =>
                (ret.id = tcalls /\ mode # "call")
          /\ \A d \in 1..Len(stack) :
                (fr[d].res.kind = "Protocol" /\ fr[d].res.e = "Transport") =>
                    /\ ret = fr[d].res
                    /\ tcalls = fr[d].res.id
                    /\ mode # "call"

ErrorsPropagateUnchangedWitness ==
    /\ Positions("Retry") = {}
    /\ Positions("Default") # {}
    /\ \E d \in Positions("Follow") :
          /\ fr[d].got = <<"Redirect", "Redirect", "Protocol">>
          /\ fr[d].out = ProtocolError("Transport", 3)
    /\ \A d \in Positions("Default") : fr[d].out = ProtocolError("Transport", 3)
    /\ mode = "done"
    /\ ret = ProtocolError("Transport", 3)
    /\ tcalls = 3

\* ------------------------------------------------------------ Next::run
\* One step of the chain: the stack is not changed, and a run that starts
\* starts one position after the position of the step that started it.
ChainStep ==
    /\ stack' = stack
    /\ mode' = "call" => pos' = pos + 1

AllDefault == \A d \in 1..Len(stack) : stack[d] = "Default"

\* A stack of default-forwarding middlewares: each handle is invoked at
\* most once and in list order, every run gets the request unchanged, and
\* when the call is done each handle was invoked once, the transport once
\* after all of them, and every handle returned the transport's result.
DefaultChain ==
    AllDefault =>
        /\ req = orig
        /\ tcalls <= 1
        /\ \A d \in 1..Len(stack) :
              /\ handled[d] <= 1
              /\ handled[d] = 1 => \A e \in 1..d : handled[e] = 1
              /\ tcalls = 1 => handled[d] = 1
        /\ mode = "done" =>
              /\ tcalls = 1
              /\ ret.id = 1
              /\ ret.kind \in {"Ok", "Protocol"}
              /\ \A d \in 1..Len(stack) :
                    /\ handled[d] = 1
                    /\ log[d] = <<"enter", d>>
                    /\ fr[d].request = orig
                    /\ fr[d].res = ret
                    /\ fr[d].out = ret
              /\ log[Len(stack) + 1] = <<"transport", 0>>

\* C18: Next.run hands the first middleware of its slice a continuation
\* over the rest: every step shrinks the remaining suffix by exactly one
\* and never changes the stack, and an empty suffix calls the transport.
\* So with n default-forwarding middlewares each handle is invoked exactly
\* once in list order, the transport exactly once after all of them with
\* the unchanged request, and the transport's result is returned unchanged.
ChainDriver == []DefaultChain /\ [][ChainStep]_vars

ChainDriverWitness ==
    /\ stack = <<"Default", "Default">>
    /\ mode = "done"
    /\ handled = <<1, 1>>
    /\ tcalls = 1
    /\ ret = OkResponse(404, Opaque, 1)
    /\ fr[1].out = ret
    /\ req = orig

\* ------------------------------------------------------- replay identity
\* The request, its URL left aside.
WithoutUrl(r) == [r EXCEPT !.url = MkUri(None, None, None)]

\* C19: every request a Retry.handle call delegates (attempts 1 to 4) is
\* equal to the materialized request it received; every request a
\* Follow.handle call delegates is equal to the materialized request it
\* received in method, headers, version and body, and differs from it at
\* most in the URL.
ReplayIdentity ==
    /\ \A d \in Positions("Retry") :
          /\ (mode = "call" /\ pos = d + 1) => req = fr[d].request
          /\ (handled[d] >= 1 /\ d = 1) =>
                fr[d].request \in {orig, [orig EXCEPT !.mem = TRUE]}
    /\ \A d \in Positions("Follow") :
          /\ (mode = "call" /\ pos = d + 1) =>
                /\ req.method = fr[d].request.method
                /\ req.header = fr[d].request.header
                /\ req.version = fr[d].request.version
                /\ req.body = fr[d].request.body
                /\ WithoutUrl(req) = WithoutUrl(fr[d].request)
          /\ (handled[d] >= 1 /\ d = 1) =>
                fr[d].request \in {orig, [orig EXCEPT !.mem = TRUE]}

ReplayIdentityWitness ==
    \E d \in Positions("Follow") :
        /\ mode = "call"
        /\ pos = d + 1
        /\ fr[d].delegs = 3
        /\ fr[d].res.status = 301
        /\ req.url # fr[d].request.url
        /\ req.method = "POST"
        /\ req.body = TextBody(<<104, 105>>)
        /\ ~orig.mem

\* ------------------------------------------------------------ multipart
RECURSIVE Flatten(_)
Flatten(seqs) ==
    IF seqs = <<>> THEN <<>> ELSE Head(seqs) \o Flatten(Tail(seqs))

\* The headers of a part in the order their values were added.
InsertionOrder(p) == p.headers.added

\* The headers of a part name by name, the names in the order they were
\* first added and the values of one name in the order they were added.
NameOrder(p) ==
    Flatten([j \in 1..Len(p.headers.names) |->
                Select(p.headers.added, p.headers.names[j])])

\* One part on the wire: "--" B CRLF, a line "Key: Value" CRLF per header
\* of lines, an empty line, the body's bytes, CRLF.
PartLayout(B, lines, content) ==
    Flatten(<< <<45, 45>>, B, <<13, 10>>,
               Flatten([j \in 1..Len(lines) |->
                          lines[j][1] \o <<58, 32>> \o lines[j][2] \o <<13, 10>>]),
               <<13, 10>>, content, <<13, 10>> >>)

\* The parts in insertion order, each with the header lines given for it,
\* followed once by the closing delimiter "--" B "--" CRLF.
FormLayout(B, parts, lines) ==
    Flatten([j \in 1..Len(parts) |->
                PartLayout(B, lines[j], bytes(parts[j].body))])
        \o <<45, 45>> \o B \o <<45, 45, 13, 10>>

\* The boundary used is the one last set, and full_content_type is the
\* base content type, "; boundary=" and that boundary.
BoundaryLastSet ==
    /\ made.bytes # NoBytes =>
          /\ Len(made.bytes) >= Len(made.boundary) + 6
          /\ SubSeq(made.bytes, Len(made.bytes) - Len(made.boundary) - 3,
                    Len(made.bytes) - 4) = made.boundary
          /\ Len(form.parts) = 0 =>
                made.bytes = <<45, 45>> \o made.boundary \o <<45, 45, 13, 10>>
    /\ made.content_type # NoBytes =>
          made.content_type = form.content_type
              \o <<59, 32, 98, 111, 117, 110, 100, 97, 114, 121, 61>>
              \o made.boundary

IsEmptyByVariant ==
    probe.empty # <<>> =>
        /\ bodies[1].variant = "Empty" => probe.empty[1]
        /\ bodies[1].variant \in {"Bytes", "Text"} =>
              (probe.empty[1] <=> bodies[1].content = <<>>)
        /\ bodies[1].variant = "Json" => ~probe.empty[1]

IsEmptyByVariantWitness ==
    /\ bodies[1] = JsonBody(JsonObject)
    /\ probe.empty = <<FALSE>>

\* C17: hashing writes a variant tag first, a distinct one for each of
\* Empty, Bytes, Text and Json, and then the content bytes of the variant;
\* so two bodies of different variants never write the same input, even
\* with the same content bytes, and two equal bodies write the same input.
HashTagsVariant ==
    probe.hashes # <<>> =>
        /\ \A j \in 1..2 :
              /\ Len(probe.hashes[j]) >= 1
              /\ Tail(probe.hashes[j]) = bytes(bodies[j])
        /\ bodies[1].variant # bodies[2].variant =>
              /\ probe.hashes[1][1] # probe.hashes[2][1]
              /\ probe.hashes[1] # probe.hashes[2]
        /\ bodies[1].variant = bodies[2].variant =>
              /\ probe.hashes[1][1] = probe.hashes[2][1]
              /\ bodies[1].content = bodies[2].content =>
                    probe.hashes[1] = probe.hashes[2]

HashTagsVariantWitness ==
    /\ bodies = <<TextBody(<<49>>), BytesBody(<<49>>)>>
    /\ probe.hashes = << <<2, 49>>, <<1, 49>> >>

\* ------------------------------------------------------ concurrent calls
\* What one call shows of its own history: at most 4 attempts and at most
\* 10 hops; its counter i counts its own failed attempts and its budget is
\* 10 less its own hops; it ends with an error only after 4 failures of
\* its own, and otherwise with the response it received itself.
OwnHistory(k) ==
    /\ calls[k].attempts <= MaxAttempts
    /\ calls[k].hops <= AllowedRedirects
    /\ calls[k].pc # "new" =>
          /\ calls[k].attempts >= 1
          /\ calls[k].i = calls[k].attempts - 1
    /\ calls[k].pc \in {"follow", "transport", "answer"} =>
          calls[k].fails = calls[k].attempts - 1
    /\ calls[k].pc \in {"transport", "answer"} =>
          calls[k].allowed_redirects = AllowedRedirects - calls[k].hops
    /\ calls[k].pc = "done" =>
          /\ calls[k].out = calls[k].res
          /\ IsErr(calls[k].out) =>
                (calls[k].attempts = MaxAttempts /\ calls[k].fails = MaxAttempts)
          /\ calls[k].out.kind = "Ok" =>
                (calls[k].fails = calls[k].attempts - 1
                 /\ ~is_redirection(calls[k].out.status))

\* A step changes the locals, the counts and the result of one call only.
OneCallSteps ==
    \A k \in Calls :
        calls'[k] # calls[k] => \A j \in Calls \ {k} : calls'[j] = calls[j]

\* C20: two calls running concurrently through the stack [Retry, Follow]
\* share no state: under every interleaving each call has its own attempt
\* counter and its own hop budget, makes at most 4 attempts per Retry
\* invocation and at most 10 hops per Follow invocation, and the failures
\* and redirects one call sees never change the attempts, the budget or
\* the result of the other.
NoSharedState == [](\A k \in Calls : OwnHistory(k)) /\ [][OneCallSteps]_vars

NoSharedStateWitness ==
    /\ calls[1].pc = "transport"
    /\ calls[1].attempts = 3
    /\ calls[1].hops = 2
    /\ calls[2].pc = "answer"
    /\ calls[2].attempts = 1
    /\ calls[2].hops = AllowedRedirects
    /\ is_redirection(calls[2].res.status)

====
